---- MODULE Spec2Model ----
(***************************************************************************)
(* write_together: two peers, each a Connection Actor (app.rs, App and     *)
(* run_app) and a Presentation Actor (ui_actor.rs, UIActor and             *)
(* run_ui_actor), joined by two bounded mpsc channels per peer and by TCP. *)
(* Every await of the source that another task can observe (a channel     *)
(* send, a connect, a shutdown) is one step; the code between two awaits   *)
(* is part of the step that precedes it.                                   *)
(***************************************************************************)
EXTENDS Integers, Sequences, FiniteSets, TLC

\* ---- bounds of the exploration ----
MaxDials == 1
MaxSubmits == 2
MaxInput == 2
MaxAddr == 1
MaxConns == 1
MaxRemoteWrites == 1
MaxBlockDials == 11
MaxTurn == 3

\* ---- program constants ----
ChanCap == 8
BufSize == 1024

Peers == {1, 2}

Other(p) == 3 - p

\* in Spec one program, Local, runs against an arbitrary TCP remote
Local == 1

Remote == 2

\* characters of KeyCode::Char events
Chars == {"a", "."}

VARIABLES
    pc,         \* run_app: "start", "run", "ok" (returned Ok), "err" (returned Err), "panic"
    state,      \* App.state tag: "Waiting" | "Connected"
    sock,       \* App.state payload: connection id of the TcpStream, 0 in Waiting
    todo,       \* rest of the handler run_app is executing (empty at the select)
    listening,  \* the TcpListener of run_app exists
    backlog,    \* connections established by the OS, not yet returned by listener.accept()
    conns,      \* TCP connections: dialer, per-peer endpoint status, unread bytes, reset flag
    cmdq,       \* mpsc channel AppHandle.sender -> run_app receiver
    cmdOpen,    \* the AppHandle (its Sender) has not been dropped
    uiq,        \* mpsc channel UIHandle.sender -> UIActor.receiver
    uiqOpen,    \* the UIActor (its Receiver) has not been dropped
    ui,         \* UIActor fields, and the command it is awaiting to send
    dials,      \* Connect commands enqueued so far, per peer
    submits,    \* sentences enqueued (and echoed) so far, per peer
    echoes,     \* history: sentences the UIActor pushed to content_log itself, per peer
    writes,     \* history: number of write_all calls that returned Ok, per peer
    last,       \* history: the last event at the App that bears on the turn, per peer:
                \* "none", "passive" (accepted), "active" (dialed), "received", "sent"
    session     \* a SessionInstance (sessions.rs), the result of its last can_submit
                \* and whether a call on it has panicked

vars == <<pc, state, sock, todo, listening, backlog, conns, cmdq, cmdOpen,
          uiq, uiqOpen, ui, dials, submits, echoes, writes, last, session>>

\* ---------------------------------------------------------------------
\* Strings.  A String is [s |-> characters, z |-> number of trailing NULs]
\* ---------------------------------------------------------------------
Str(cs) == [s |-> cs, z |-> 0]

\* str::as_bytes / String::from_utf8 over the characters used here
CharBytes(c) ==
    IF c = "a" THEN <<97>>
    ELSE IF c = "." THEN <<46>>
    ELSE IF c = "e'" THEN <<195, 169>>
    ELSE <<0>>

RECURSIVE AsBytes(_)
AsBytes(cs) == IF cs = <<>> THEN <<>> ELSE CharBytes(Head(cs)) \o AsBytes(Tail(cs))

RECURSIVE Utf8Valid(_)
Utf8Valid(bs) ==
    IF bs = <<>> THEN TRUE
    ELSE IF Head(bs) < 128 THEN Utf8Valid(Tail(bs))
    ELSE IF Head(bs) = 195 /\ Len(bs) >= 2 /\ bs[2] >= 128 /\ bs[2] < 192
         THEN Utf8Valid(Tail(Tail(bs)))
    ELSE FALSE

RECURSIVE Utf8Chars(_)
Utf8Chars(bs) ==
    IF bs = <<>> THEN <<>>
    ELSE IF Head(bs) = 97 THEN <<"a">> \o Utf8Chars(Tail(bs))
    ELSE IF Head(bs) = 46 THEN <<".">> \o Utf8Chars(Tail(bs))
    ELSE IF Head(bs) = 195 THEN <<"e'">> \o Utf8Chars(Tail(Tail(bs)))
    ELSE <<"?">> \o Utf8Chars(Tail(bs))

\* ---------------------------------------------------------------------
\* UIMessage and AppInput values
\* ---------------------------------------------------------------------
Log(t) == [k |-> "Log", s |-> Str(<<t>>), b |-> FALSE]

SentenceReceived(str) == [k |-> "SentenceReceived", s |-> str, b |-> FALSE]

Connected(turn) == [k |-> "Connected", s |-> Str(<<>>), b |-> turn]

Disconnected == [k |-> "Disconnected", s |-> Str(<<>>), b |-> FALSE]

Connect(a) == [k |-> "Connect", a |-> a, s |-> Str(<<>>)]

Input(str) == [k |-> "Input", a |-> 0, s |-> str]

NoCmd == [k |-> "None", a |-> 0, s |-> Str(<<>>)]

\* steps of a handler that are still to run
SendOp(n) == [op |-> "send", n |-> n, c |-> 0]

ConnectOp(a) == [op |-> "connect", n |-> Disconnected, c |-> a]

AcceptOp(c) == [op |-> "accept", n |-> Disconnected, c |-> c]

BreakOp == [op |-> "break", n |-> Disconnected, c |-> 0]

\* ---------------------------------------------------------------------
\* SessionInstance (sessions.rs)
\* ---------------------------------------------------------------------
U8 == 0..255

\* SessionInstance::new
SessionNew(offset) ==
    [content |-> <<>>, turn |-> 0, our_offset |-> offset,
     result |-> "none", status |-> "ok"]

\* #[derive(Default)]
SessionDefault == SessionNew(0)

\* ---------------------------------------------------------------------
\* Initial state: App::new, UIActor::new, run_app spawned and not yet bound
\* ---------------------------------------------------------------------
UIActorNew ==
    [alive |-> TRUE,
     app_state |-> "Waiting",
     is_our_turn |-> FALSE,
     content_log |-> <<>>,
     log_buffer |-> <<>>,
     input_buffer |-> <<>>,
     address_buffer |-> <<>>,
     selected_element |-> "Connect",
     pending |-> NoCmd]

Init ==
    /\ pc = [p \in Peers |-> "start"]
    /\ state = [p \in Peers |-> "Waiting"]
    /\ sock = [p \in Peers |-> 0]
    /\ todo = [p \in Peers |-> <<>>]
    /\ \E l \in BOOLEAN : listening = [p \in Peers |-> p = Remote /\ l]
    /\ backlog = [p \in Peers |-> <<>>]
    /\ conns = <<>>
    /\ cmdq = [p \in Peers |-> <<>>]
    /\ cmdOpen = [p \in Peers |-> TRUE]
    /\ uiq = [p \in Peers |-> <<>>]
    /\ uiqOpen = [p \in Peers |-> TRUE]
    /\ ui = [p \in Peers |-> UIActorNew]
    /\ dials = [p \in Peers |-> 0]
    /\ submits = [p \in Peers |-> 0]
    /\ echoes = [p \in Peers |-> 0]
    /\ writes = [p \in Peers |-> 0]
    /\ last = [p \in Peers |-> "none"]
    /\ session = SessionDefault

\* ---------------------------------------------------------------------
\* Transport (tokio::net over the OS): connections and their endpoints
\* ---------------------------------------------------------------------
Exited(p) == pc[p] \in {"ok", "err", "panic"}

NewConn(d) ==
    [dialer |-> d,
     ep |-> [q \in Peers |-> IF q = d THEN "open" ELSE "backlog"],
     inb |-> [q \in Peers |-> <<>>],
     rst |-> [q \in Peers |-> FALSE]]

\* the TcpStreams the task of run_app holds (in App.state or in a local)
Held(p) == {c \in 1..Len(conns) : conns[c].ep[p] \in {"open", "shut"}}

\* drop of a TcpStream: the peer is reset when unread bytes are discarded
CloseEp(cs, c, p) ==
    [cs EXCEPT ![c].ep[p] = "closed",
               ![c].inb[p] = <<>>,
               ![c].rst[Other(p)] = @ \/ cs[c].inb[p] # <<>>]

RECURSIVE CloseAll(_, _, _)
CloseAll(cs, p, ids) ==
    IF ids = {} THEN cs
    ELSE LET c == CHOOSE x \in ids : TRUE
         IN CloseAll(CloseEp(cs, c, p), p, ids \ {c})

\* everything run_app owns is dropped when it returns or panics
DropApp(cs, p) ==
    CloseAll(cs, p, {c \in 1..Len(cs) : cs[c].ep[p] # "closed"})

\* the end of App::accept drops the stream it shut down
DropShut(cs, p) ==
    CloseAll(cs, p, {c \in 1..Len(cs) : cs[c].ep[p] = "shut"})

\* the peer has sent FIN and every byte before it has been read
AtEof(c, p) ==
    /\ conns[c].inb[p] = <<>>
    /\ conns[c].ep[Other(p)] \in {"shut", "closed"}

Prefix(seq, n) == SubSeq(seq, 1, n)

Suffix(seq, n) == SubSeq(seq, n + 1, Len(seq))

Min(a, b) == IF a < b THEN a ELSE b

\* run_app returns Err (a `?`) or panics (an unwrap): its locals are dropped
Exit(p, how) ==
    /\ pc' = [pc EXCEPT ![p] = how]
    /\ todo' = [todo EXCEPT ![p] = <<>>]
    /\ listening' = [listening EXCEPT ![p] = FALSE]
    /\ backlog' = [backlog EXCEPT ![p] = <<>>]
    /\ conns' = DropApp(conns, p)
    /\ cmdq' = [cmdq EXCEPT ![p] = <<>>]

\* ---------------------------------------------------------------------
\* run_app and App
\* ---------------------------------------------------------------------
AtSelect(p) == pc[p] = "run" /\ todo[p] = <<>>

\* TcpListener::bind, then the first log
AppBind(p) ==
    /\ pc[p] = "start"
    /\ \E ok \in BOOLEAN :
        IF ok
        THEN /\ pc' = [pc EXCEPT ![p] = "run"]
             /\ listening' = [listening EXCEPT ![p] = TRUE]
             /\ todo' = [todo EXCEPT ![p] = <<SendOp(Log("Bound to localhost"))>>]
             /\ UNCHANGED <<backlog, conns, cmdq>>
        ELSE Exit(p, "err")
    /\ UNCHANGED <<state, sock, cmdOpen, uiq, uiqOpen, ui, dials, submits, echoes, writes, last>>
    /\ UNCHANGED session

\* select! branch: Ok((socket, addr)) = listener.accept()
AppSelectAccept(p) ==
    /\ AtSelect(p)
    /\ backlog[p] # <<>>
    /\ LET c == Head(backlog[p]) IN
        /\ backlog' = [backlog EXCEPT ![p] = Tail(@)]
        /\ conns' = [conns EXCEPT ![c].ep[p] = "open"]
        /\ todo' = [todo EXCEPT ![p] =
                      <<SendOp(Log("Accepting connection")), AcceptOp(c)>>]
    /\ UNCHANGED <<pc, state, sock, listening, cmdq, cmdOpen, uiq, uiqOpen, ui,
                   dials, submits, echoes, writes, last>>
    /\ UNCHANGED session

\* App::accept announcing the turn a dialer is given
AppAcceptTurn(p) ==
    /\ pc[p] = "run"
    /\ todo[p] # <<>>
    /\ Head(todo[p]).op = "accept"
    /\ LET c == Head(todo[p]).c IN
        IF state[p] = "Waiting"
        THEN /\ state' = [state EXCEPT ![p] = "Connected"]
             /\ sock' = [sock EXCEPT ![p] = c]
             /\ todo' = [todo EXCEPT ![p] =
                           <<SendOp(Connected(TRUE)), SendOp(Log("Connected to"))>>]
             /\ last' = [last EXCEPT ![p] = "passive"]
             /\ UNCHANGED <<pc, listening, backlog, conns, cmdq>>
        ELSE IF conns[c].rst[p]
        THEN /\ Exit(p, "err")
             /\ UNCHANGED <<state, sock, last>>
        ELSE /\ conns' = [conns EXCEPT ![c].ep[p] = "shut"]
             /\ todo' = [todo EXCEPT ![p] =
                           <<SendOp(Log("Already connected, dropping new connection"))>>]
             /\ UNCHANGED <<pc, state, sock, listening, backlog, cmdq, last>>
    /\ UNCHANGED <<cmdOpen, uiq, uiqOpen, ui, dials, submits, echoes, writes>>
    /\ UNCHANGED session

\* App::accept without its `matches!(self.state, State::Waiting)` test
AppAcceptAlways(p) ==
    /\ pc[p] = "run"
    /\ todo[p] # <<>>
    /\ Head(todo[p]).op = "accept"
    /\ state' = [state EXCEPT ![p] = "Connected"]
    /\ sock' = [sock EXCEPT ![p] = Head(todo[p]).c]
    /\ conns' = IF sock[p] = 0 THEN conns ELSE CloseEp(conns, sock[p], p)
    /\ todo' = [todo EXCEPT ![p] =
                  <<SendOp(Connected(FALSE)), SendOp(Log("Connected to"))>>]
    /\ last' = [last EXCEPT ![p] = "passive"]
    /\ UNCHANGED <<pc, listening, backlog, cmdq, cmdOpen, uiq, uiqOpen, ui, dials,
                   submits, echoes, writes>>
    /\ UNCHANGED session

\* App::accept, up to its first await on the observer
AppAccept(p) ==
    /\ pc[p] = "run"
    /\ todo[p] # <<>>
    /\ Head(todo[p]).op = "accept"
    /\ LET c == Head(todo[p]).c IN
        IF state[p] = "Waiting"
        THEN /\ state' = [state EXCEPT ![p] = "Connected"]
             /\ sock' = [sock EXCEPT ![p] = c]
             /\ todo' = [todo EXCEPT ![p] =
                           <<SendOp(Connected(FALSE)), SendOp(Log("Connected to"))>>]
             /\ last' = [last EXCEPT ![p] = "passive"]
             /\ UNCHANGED <<pc, listening, backlog, conns, cmdq>>
        ELSE IF conns[c].rst[p]
        THEN \* stream.shutdown().await? fails on a reset connection
             /\ Exit(p, "err")
             /\ UNCHANGED <<state, sock, last>>
        ELSE /\ conns' = [conns EXCEPT ![c].ep[p] = "shut"]
             /\ todo' = [todo EXCEPT ![p] =
                           <<SendOp(Log("Already connected, dropping new connection"))>>]
             /\ UNCHANGED <<pc, state, sock, listening, backlog, cmdq, last>>
    /\ UNCHANGED <<cmdOpen, uiq, uiqOpen, ui, dials, submits, echoes, writes>>
    /\ UNCHANGED session

\* AppInput::Connect announcing the turn an acceptor is given
HandleConnectNoTurn(p, a) ==
    IF state[p] = "Waiting"
    THEN /\ todo' = [todo EXCEPT ![p] =
                       <<SendOp(Log("Attempting to connect")), ConnectOp(a),
                         SendOp(Connected(FALSE)), SendOp(Log("Connected to remote"))>>]
         /\ cmdq' = [cmdq EXCEPT ![p] = Tail(@)]
         /\ UNCHANGED <<pc, listening, backlog, conns, writes, last>>
    ELSE /\ cmdq' = [cmdq EXCEPT ![p] = Tail(@)]
         /\ UNCHANGED <<pc, todo, listening, backlog, conns, writes, last>>

\* AppInput::Connect handled without the match on self.state
HandleConnectAlways(p, a) ==
    /\ todo' = [todo EXCEPT ![p] =
                  <<SendOp(Log("Attempting to connect")), ConnectOp(a),
                    SendOp(Connected(TRUE)), SendOp(Log("Connected to remote"))>>]
    /\ cmdq' = [cmdq EXCEPT ![p] = Tail(@)]
    /\ UNCHANGED <<pc, listening, backlog, conns, writes, last>>

\* the handler of each AppInput, up to its first await (App::handle_message)
HandleConnect(p, a) ==
    IF state[p] = "Waiting"
    THEN /\ todo' = [todo EXCEPT ![p] =
                       <<SendOp(Log("Attempting to connect")), ConnectOp(a),
                         SendOp(Connected(TRUE)), SendOp(Log("Connected to remote"))>>]
         /\ cmdq' = [cmdq EXCEPT ![p] = Tail(@)]
         /\ UNCHANGED <<pc, listening, backlog, conns, writes, last>>
    ELSE /\ cmdq' = [cmdq EXCEPT ![p] = Tail(@)]
         /\ UNCHANGED <<pc, todo, listening, backlog, conns, writes, last>>

\* AppInput::Input handled with no log in the Waiting arm
HandleInputSilent(p, str) ==
    IF state[p] = "Waiting"
    THEN /\ cmdq' = [cmdq EXCEPT ![p] = Tail(@)]
         /\ UNCHANGED <<pc, todo, listening, backlog, conns, writes, last>>
    ELSE LET c == sock[p]
             q == Other(p)
         IN  IF conns[c].rst[p]
             THEN /\ Exit(p, "err")
                  /\ UNCHANGED <<writes, last>>
             ELSE /\ conns' = IF conns[c].ep[q] = "closed"
                              THEN [conns EXCEPT ![c].rst[p] = TRUE]
                              ELSE [conns EXCEPT ![c].inb[q] = @ \o AsBytes(str.s)]
                  /\ writes' = [writes EXCEPT ![p] = @ + 1]
                  /\ last' = [last EXCEPT ![p] = "sent"]
                  /\ cmdq' = [cmdq EXCEPT ![p] = Tail(@)]
                  /\ UNCHANGED <<pc, todo, listening, backlog>>

\* stream.write_all(input.as_bytes()).await?
HandleInput(p, str) ==
    IF state[p] = "Waiting"
    THEN /\ todo' = [todo EXCEPT ![p] = <<SendOp(Log("ERROR: Unexpected input"))>>]
         /\ cmdq' = [cmdq EXCEPT ![p] = Tail(@)]
         /\ UNCHANGED <<pc, listening, backlog, conns, writes, last>>
    ELSE LET c == sock[p]
             q == Other(p)
         IN  IF conns[c].rst[p]
             THEN /\ Exit(p, "err")
                  /\ UNCHANGED <<writes, last>>
             ELSE /\ conns' = IF conns[c].ep[q] = "closed"
                              THEN [conns EXCEPT ![c].rst[p] = TRUE]
                              ELSE [conns EXCEPT ![c].inb[q] = @ \o AsBytes(str.s)]
                  /\ writes' = [writes EXCEPT ![p] = @ + 1]
                  /\ last' = [last EXCEPT ![p] = "sent"]
                  /\ cmdq' = [cmdq EXCEPT ![p] = Tail(@)]
                  /\ UNCHANGED <<pc, todo, listening, backlog>>

\* select! branch: msg = receiver.recv(), Some(msg)
AppSelectRecv(p) ==
    /\ AtSelect(p)
    /\ cmdq[p] # <<>>
    /\ LET msg == Head(cmdq[p]) IN
        IF msg.k = "Connect" THEN HandleConnect(p, msg.a) ELSE HandleInput(p, msg.s)
    /\ UNCHANGED <<state, sock, cmdOpen, uiq, uiqOpen, ui, dials, submits, echoes>>
    /\ UNCHANGED session

\* select! branch: msg = receiver.recv(), None: every Sender is dropped
AppSelectClosed(p) ==
    /\ AtSelect(p)
    /\ cmdq[p] = <<>>
    /\ ~cmdOpen[p]
    /\ todo' = [todo EXCEPT ![p] = <<SendOp(Log("Lost connection to UI")), BreakOp>>]
    /\ UNCHANGED <<pc, state, sock, listening, backlog, conns, cmdq, cmdOpen, uiq,
                   uiqOpen, ui, dials, submits, echoes, writes, last>>
    /\ UNCHANGED session

\* String::from_utf8(buf) of process_data: buf is the whole BufSize-byte vector
FromUtf8Buf(chunk) == [s |-> Utf8Chars(chunk), z |-> BufSize - Len(chunk)]

\* App::process_data without `self.state = State::Waiting`
ProcessDataKeep(p, c, n) ==
    IF n > 0
    THEN LET chunk == Prefix(conns[c].inb[p], n) IN
         IF Utf8Valid(chunk)
         THEN /\ conns' = [conns EXCEPT ![c].inb[p] = Suffix(@, n)]
              /\ todo' = [todo EXCEPT ![p] =
                            <<SendOp(SentenceReceived(FromUtf8Buf(chunk)))>>]
              /\ last' = [last EXCEPT ![p] = "received"]
              /\ UNCHANGED <<pc, state, sock, listening, backlog, cmdq>>
         ELSE /\ Exit(p, "panic")
              /\ UNCHANGED <<state, sock, last>>
    ELSE /\ todo' = [todo EXCEPT ![p] =
                       <<SendOp(Disconnected), SendOp(Log("Disconnected from remote"))>>]
         /\ UNCHANGED <<pc, state, sock, listening, backlog, conns, cmdq, last>>

\* App::process_data, up to its first await
ProcessData(p, c, n) ==
    IF n > 0
    THEN LET chunk == Prefix(conns[c].inb[p], n) IN
         IF Utf8Valid(chunk)
         THEN /\ conns' = [conns EXCEPT ![c].inb[p] = Suffix(@, n)]
              /\ todo' = [todo EXCEPT ![p] =
                            <<SendOp(SentenceReceived(FromUtf8Buf(chunk)))>>]
              /\ last' = [last EXCEPT ![p] = "received"]
              /\ UNCHANGED <<pc, state, sock, listening, backlog, cmdq>>
         ELSE /\ Exit(p, "panic")
              /\ UNCHANGED <<state, sock, last>>
    ELSE /\ state' = [state EXCEPT ![p] = "Waiting"]
         /\ sock' = [sock EXCEPT ![p] = 0]
         /\ conns' = CloseEp(conns, c, p)
         /\ todo' = [todo EXCEPT ![p] =
                       <<SendOp(Disconnected), SendOp(Log("Disconnected from remote"))>>]
         /\ last' = [last EXCEPT ![p] = "none"]
         /\ UNCHANGED <<pc, listening, backlog, cmdq>>

\* select! branch: Some(result) = app.socket().map(|stream| stream.read(&mut buf))
AppSelectRead(p) ==
    /\ AtSelect(p)
    /\ state[p] = "Connected"
    /\ LET c == sock[p] IN
        \/ /\ conns[c].rst[p]          \* read fails: result.unwrap() panics
           /\ Exit(p, "panic")
           /\ UNCHANGED <<state, sock, last>>
        \/ /\ ~conns[c].rst[p]
           /\ conns[c].inb[p] # <<>>
           /\ \E n \in 1..Min(Len(conns[c].inb[p]), BufSize) : ProcessData(p, c, n)
        \/ /\ ~conns[c].rst[p]
           /\ AtEof(c, p)
           /\ ProcessData(p, c, 0)
    /\ UNCHANGED <<cmdOpen, uiq, uiqOpen, ui, dials, submits, echoes, writes>>
    /\ UNCHANGED session

\* TcpStream::connect(address).await? and the assignment that follows it
AppConnect(p) ==
    /\ pc[p] = "run"
    /\ todo[p] # <<>>
    /\ Head(todo[p]).op = "connect"
    /\ LET a == Head(todo[p]).c IN
        IF a \in Peers /\ listening[a]
        THEN /\ conns' = Append(conns, NewConn(p))
             /\ backlog' = [backlog EXCEPT ![a] = Append(@, Len(conns) + 1)]
             /\ state' = [state EXCEPT ![p] = "Connected"]
             /\ sock' = [sock EXCEPT ![p] = Len(conns) + 1]
             /\ todo' = [todo EXCEPT ![p] = Tail(@)]
             /\ last' = [last EXCEPT ![p] = "active"]
             /\ UNCHANGED <<pc, listening, cmdq>>
        ELSE /\ Exit(p, "err")
             /\ UNCHANGED <<state, sock, last>>
    /\ UNCHANGED <<cmdOpen, uiq, uiqOpen, ui, dials, submits, echoes, writes>>
    /\ UNCHANGED session

\* UIHandle's send as a try_send: a full channel loses the message
AppSendDrop(p) ==
    /\ pc[p] = "run"
    /\ todo[p] # <<>>
    /\ Head(todo[p]).op = "send"
    /\ IF ~uiqOpen[p]
       THEN /\ Exit(p, "err")
            /\ UNCHANGED uiq
       ELSE /\ uiq' = IF Len(uiq[p]) < ChanCap
                      THEN [uiq EXCEPT ![p] = Append(@, Head(todo[p]).n)]
                      ELSE uiq
            /\ IF Tail(todo[p]) # <<>> /\ Head(Tail(todo[p])).op = "break"
               THEN Exit(p, "ok")
               ELSE /\ todo' = [todo EXCEPT ![p] = Tail(@)]
                    /\ conns' = IF Tail(todo[p]) = <<>> THEN DropShut(conns, p) ELSE conns
                    /\ UNCHANGED <<pc, listening, backlog, cmdq>>
    /\ UNCHANGED <<state, sock, cmdOpen, uiqOpen, ui, dials, submits, echoes, writes, last>>
    /\ UNCHANGED session

\* UIHandle::{log, connected, disconnected, sentence_received}: sender.send(..).await?
\* and the code of the handler up to its next await
AppSend(p) ==
    /\ pc[p] = "run"
    /\ todo[p] # <<>>
    /\ Head(todo[p]).op = "send"
    /\ IF ~uiqOpen[p]
       THEN /\ Exit(p, "err")
            /\ UNCHANGED uiq
       ELSE /\ Len(uiq[p]) < ChanCap
            /\ uiq' = [uiq EXCEPT ![p] = Append(@, Head(todo[p]).n)]
            /\ IF Tail(todo[p]) # <<>> /\ Head(Tail(todo[p])).op = "break"
               THEN Exit(p, "ok")
               ELSE /\ todo' = [todo EXCEPT ![p] = Tail(@)]
                    /\ conns' = IF Tail(todo[p]) = <<>> THEN DropShut(conns, p) ELSE conns
                    /\ UNCHANGED <<pc, listening, backlog, cmdq>>
    /\ UNCHANGED <<state, sock, cmdOpen, uiqOpen, ui, dials, submits, echoes, writes, last>>
    /\ UNCHANGED session

\* ---------------------------------------------------------------------
\* UIActor and run_ui_actor
\* ---------------------------------------------------------------------
Keys == {"Esc", "Backspace", "Left", "Right", "Enter"} \cup Chars

Pop(seq) == IF seq = <<>> THEN seq ELSE SubSeq(seq, 1, Len(seq) - 1)

\* SocketAddr::from_str of the address buffer: one spelling is the peer's
\* listen address, every other buffer does not parse (0)
ParseAddr(buf, p) == IF buf = <<"a">> THEN Other(p) ELSE 0

\* UIActor::handle_message with Disconnected leaving app_state as it is
HandleMessageStay(u, msg) ==
    IF msg.k = "Log"
    THEN [u EXCEPT !.log_buffer = Append(@, msg.s)]
    ELSE IF msg.k = "SentenceReceived"
    THEN IF u.app_state = "InSession"
         THEN [u EXCEPT !.is_our_turn = TRUE, !.content_log = Append(@, msg.s)]
         ELSE u
    ELSE IF msg.k = "Connected"
    THEN [u EXCEPT !.log_buffer = Append(@, Str(<<"Accepted remote connection">>)),
                   !.app_state = "InSession",
                   !.is_our_turn = msg.b,
                   !.content_log = <<>>]
    ELSE u

\* UIActor::handle_message with Connected keeping the transcript it finds
HandleMessageKeep(u, msg) ==
    IF msg.k = "Log"
    THEN [u EXCEPT !.log_buffer = Append(@, msg.s)]
    ELSE IF msg.k = "SentenceReceived"
    THEN IF u.app_state = "InSession"
         THEN [u EXCEPT !.is_our_turn = TRUE, !.content_log = Append(@, msg.s)]
         ELSE u
    ELSE IF msg.k = "Connected"
    THEN [u EXCEPT !.log_buffer = Append(@, Str(<<"Accepted remote connection">>)),
                   !.app_state = "InSession",
                   !.is_our_turn = msg.b]
    ELSE [u EXCEPT !.app_state = "Waiting", !.is_our_turn = FALSE]

\* UIActor::handle_message
HandleMessage(u, msg) ==
    IF msg.k = "Log"
    THEN [u EXCEPT !.log_buffer = Append(@, msg.s)]
    ELSE IF msg.k = "SentenceReceived"
    THEN IF u.app_state = "InSession"
         THEN [u EXCEPT !.is_our_turn = TRUE, !.content_log = Append(@, msg.s)]
         ELSE u
    ELSE IF msg.k = "Connected"
    THEN [u EXCEPT !.log_buffer = Append(@, Str(<<"Accepted remote connection">>)),
                   !.app_state = "InSession",
                   !.is_our_turn = msg.b,
                   !.content_log = <<>>]
    ELSE [u EXCEPT !.app_state = "Waiting", !.is_our_turn = FALSE, !.content_log = <<>>]

\* UIActor::handle_independent_event; Esc is handled by the caller
HandleIndependentEvent(u, key) ==
    IF key = "Backspace"
    THEN IF u.selected_element = "Input"
         THEN [u EXCEPT !.input_buffer = Pop(@)]
         ELSE [u EXCEPT !.address_buffer = Pop(@)]
    ELSE IF key = "Left" /\ u.selected_element = "Connect"
    THEN [u EXCEPT !.selected_element = "Input"]
    ELSE IF key = "Right" /\ u.selected_element = "Input"
    THEN [u EXCEPT !.selected_element = "Connect"]
    ELSE u

\* UIActor::handle_input_event without the test of *is_our_turn
HandleInputEventAnyTurn(u, key, p) ==
    LET v == HandleIndependentEvent(u, key) IN
    IF v.app_state = "InSession"
    THEN IF key \in Chars /\ v.selected_element = "Input"
         THEN LET buf == Append(v.input_buffer, key) IN
              IF key = "."
              THEN [v EXCEPT !.input_buffer = buf, !.pending = Input(Str(buf))]
              ELSE [v EXCEPT !.input_buffer = buf]
         ELSE v
    ELSE IF key = "Enter"
    THEN IF v.selected_element = "Connect" /\ ParseAddr(v.address_buffer, p) # 0
         THEN [v EXCEPT !.pending = Connect(ParseAddr(v.address_buffer, p))]
         ELSE v
    ELSE IF key \in Chars /\ v.selected_element = "Connect"
    THEN [v EXCEPT !.address_buffer = Append(@, key)]
    ELSE v

\* UIActor::handle_input_event up to its await: the fields, and in pending the
\* command whose send it awaits
HandleInputEvent(u, key, p) ==
    LET v == HandleIndependentEvent(u, key) IN
    IF v.app_state = "InSession"
    THEN IF key \in Chars /\ v.selected_element = "Input" /\ v.is_our_turn
         THEN LET buf == Append(v.input_buffer, key) IN
              IF key = "."
              THEN [v EXCEPT !.input_buffer = buf, !.pending = Input(Str(buf))]
              ELSE [v EXCEPT !.input_buffer = buf]
         ELSE v
    ELSE IF key = "Enter"
    THEN IF v.selected_element = "Connect" /\ ParseAddr(v.address_buffer, p) # 0
         THEN [v EXCEPT !.pending = Connect(ParseAddr(v.address_buffer, p))]
         ELSE v
    ELSE IF key \in Chars /\ v.selected_element = "Connect"
    THEN [v EXCEPT !.address_buffer = Append(@, key)]
    ELSE v

\* the rest of handle_input_event once send_sentence / connect has returned Ok
AfterSend(u) ==
    IF u.pending.k = "Input"
    THEN [u EXCEPT !.content_log = Append(@, u.pending.s),
                   !.is_our_turn = FALSE,
                   !.input_buffer = <<>>,
                   !.pending = NoCmd]
    ELSE [u EXCEPT !.pending = NoCmd]

UIReady(p) == ui[p].alive /\ ui[p].pending = NoCmd

\* select! branch: Some(msg) = actor.receiver.recv()
UIRecv(p) ==
    /\ UIReady(p)
    /\ uiq[p] # <<>>
    /\ ui' = [ui EXCEPT ![p] = HandleMessage(@, Head(uiq[p]))]
    /\ uiq' = [uiq EXCEPT ![p] = Tail(@)]
    /\ UNCHANGED <<pc, state, sock, todo, listening, backlog, conns, cmdq, cmdOpen,
                   uiqOpen, dials, submits, echoes, writes, last>>
    /\ UNCHANGED session

\* select! branch: Some(Ok(event)) = actor.event_stream.next(), KeyCode::Esc:
\* run_ui_actor returns and drops the actor, its Receiver and its AppHandle
UIQuit(p) ==
    /\ UIReady(p)
    /\ ui' = [ui EXCEPT ![p].alive = FALSE]
    /\ uiq' = [uiq EXCEPT ![p] = <<>>]
    /\ uiqOpen' = [uiqOpen EXCEPT ![p] = FALSE]
    /\ cmdOpen' = [cmdOpen EXCEPT ![p] = FALSE]
    /\ UNCHANGED <<pc, state, sock, todo, listening, backlog, conns, cmdq, dials,
                   submits, echoes, writes, last>>
    /\ UNCHANGED session

\* the same branch for every other key; the exploration stops at maxDials
\* Connect commands and maxSubmits sentences
UIKeyUpTo(p, maxDials, maxSubmits) ==
    /\ UIReady(p)
    /\ \E key \in Keys \ {"Esc"} :
        LET v == HandleInputEvent(ui[p], key, p) IN
        /\ Len(v.input_buffer) <= MaxInput
        /\ Len(v.address_buffer) <= MaxAddr
        /\ v.pending.k = "Input" => submits[Local] + submits[Remote] < maxSubmits
        /\ v.pending.k = "Connect" => dials[Local] + dials[Remote] < maxDials
        /\ ui' = [ui EXCEPT ![p] = v]
        /\ submits' = [submits EXCEPT ![p] = IF v.pending.k = "Input" THEN @ + 1 ELSE @]
        /\ dials' = [dials EXCEPT ![p] = IF v.pending.k = "Connect" THEN @ + 1 ELSE @]
    /\ UNCHANGED <<pc, state, sock, todo, listening, backlog, conns, cmdq, cmdOpen,
                   uiq, uiqOpen, echoes, writes, last>>
    /\ UNCHANGED session

UIKey(p) == UIKeyUpTo(p, MaxDials, MaxSubmits)

\* a user who only enters Connect commands, up to MaxBlockDials of them
UIKeyMany(p) == UIKeyUpTo(p, MaxBlockDials, 0)

\* AppHandle::{send_sentence, connect}: sender.send(..).await, then the rest of
\* handle_input_event; an Err is swallowed by unwrap_or(false) in run_ui_actor
UISend(p) ==
    /\ ui[p].alive
    /\ ui[p].pending # NoCmd
    /\ IF Exited(p)
       THEN /\ ui' = [ui EXCEPT ![p].pending = NoCmd]
            /\ UNCHANGED <<cmdq, echoes>>
       ELSE /\ Len(cmdq[p]) < ChanCap
            /\ cmdq' = [cmdq EXCEPT ![p] = Append(@, ui[p].pending)]
            /\ ui' = [ui EXCEPT ![p] = AfterSend(@)]
            /\ echoes' = [echoes EXCEPT ![p] =
                            IF ui[p].pending.k = "Input" THEN @ + 1 ELSE @]
    /\ UNCHANGED <<pc, state, sock, todo, listening, backlog, conns, cmdOpen, uiq,
                   uiqOpen, dials, submits, writes, last>>
    /\ UNCHANGED session

\* ---------------------------------------------------------------------
\* The remote end as the transport presents it to one program: any TCP
\* client or server at the address the user can spell.  It dials the
\* program's listener, writes bytes, reads, and closes.
\* ---------------------------------------------------------------------
RemoteSentences == {<<".">>, <<"e'", ".">>}

RemoteConnect ==
    /\ listening[Local]
    /\ Len(conns) < MaxConns
    /\ conns' = Append(conns, NewConn(Remote))
    /\ backlog' = [backlog EXCEPT ![Local] = Append(@, Len(conns) + 1)]
    /\ UNCHANGED <<pc, state, sock, todo, listening, cmdq, cmdOpen, uiq, uiqOpen, ui,
                   dials, submits, echoes, writes, last>>
    /\ UNCHANGED session

RemoteWrite ==
    /\ \E c \in 1..Len(conns), cs \in RemoteSentences :
        /\ conns[c].ep[Remote] # "closed"
        /\ conns[c].ep[Local] # "closed"
        /\ writes[Remote] < MaxRemoteWrites
        /\ conns' = [conns EXCEPT ![c].inb[Local] = @ \o AsBytes(cs)]
        /\ writes' = [writes EXCEPT ![Remote] = @ + 1]
    /\ UNCHANGED <<pc, state, sock, todo, listening, backlog, cmdq, cmdOpen, uiq,
                   uiqOpen, ui, dials, submits, echoes, last>>
    /\ UNCHANGED session

RemoteRead ==
    /\ \E c \in 1..Len(conns) :
        /\ conns[c].ep[Remote] # "closed"
        /\ conns[c].inb[Remote] # <<>>
        /\ conns' = [conns EXCEPT ![c].inb[Remote] = <<>>]
    /\ UNCHANGED <<pc, state, sock, todo, listening, backlog, cmdq, cmdOpen, uiq,
                   uiqOpen, ui, dials, submits, echoes, writes, last>>
    /\ UNCHANGED session

RemoteClose ==
    /\ \E c \in 1..Len(conns) :
        /\ conns[c].ep[Remote] # "closed"
        /\ conns' = CloseEp(conns, c, Remote)
    /\ UNCHANGED <<pc, state, sock, todo, listening, backlog, cmdq, cmdOpen, uiq,
                   uiqOpen, ui, dials, submits, echoes, writes, last>>
    /\ UNCHANGED session

\* ---------------------------------------------------------------------
\* Spec: one program (Local) against an arbitrary remote
\* ---------------------------------------------------------------------
Actor(p) ==
    \/ AppBind(p)
    \/ AppSelectAccept(p)
    \/ AppSelectRecv(p)
    \/ AppSelectClosed(p)
    \/ AppSelectRead(p)
    \/ AppAccept(p)
    \/ AppConnect(p)
    \/ AppSend(p)
    \/ UIRecv(p)
    \/ UIQuit(p)
    \/ UIKey(p)
    \/ UISend(p)

Next ==
    \/ Actor(Local)
    \/ RemoteConnect
    \/ RemoteWrite
    \/ RemoteRead
    \/ RemoteClose

Spec == Init /\ [][Next]_vars

\* ---------------------------------------------------------------------
\* SpecPair: two programs, each the other's remote, both bound to their
\* ports and neither user quitting
\* ---------------------------------------------------------------------
InitPair ==
    /\ pc = [p \in Peers |-> "run"]
    /\ state = [p \in Peers |-> "Waiting"]
    /\ sock = [p \in Peers |-> 0]
    /\ todo = [p \in Peers |-> <<SendOp(Log("Bound to localhost"))>>]
    /\ listening = [p \in Peers |-> TRUE]
    /\ backlog = [p \in Peers |-> <<>>]
    /\ conns = <<>>
    /\ cmdq = [p \in Peers |-> <<>>]
    /\ cmdOpen = [p \in Peers |-> TRUE]
    /\ uiq = [p \in Peers |-> <<>>]
    /\ uiqOpen = [p \in Peers |-> TRUE]
    /\ ui = [p \in Peers |-> UIActorNew]
    /\ dials = [p \in Peers |-> 0]
    /\ submits = [p \in Peers |-> 0]
    /\ echoes = [p \in Peers |-> 0]
    /\ writes = [p \in Peers |-> 0]
    /\ last = [p \in Peers |-> "none"]
    /\ session = SessionDefault

NextPair ==
    \E p \in Peers :
        \/ AppSelectAccept(p)
        \/ AppSelectRecv(p)
        \/ AppSelectRead(p)
        \/ AppAccept(p)
        \/ AppConnect(p)
        \/ AppSend(p)
        \/ UIRecv(p)
        \/ UIKey(p)
        \/ UISend(p)

SpecPair == InitPair /\ [][NextPair]_vars

\* ---------------------------------------------------------------------
\* SpecBlock: one program whose user keeps entering Connect commands, against
\* a remote that accepts and closes
\* ---------------------------------------------------------------------
NextBlock ==
    \/ AppBind(Local)
    \/ AppSelectRecv(Local)
    \/ AppSelectRead(Local)
    \/ AppConnect(Local)
    \/ AppSend(Local)
    \/ UIRecv(Local)
    \/ UIKeyMany(Local)
    \/ UISend(Local)
    \/ RemoteClose

SpecBlock == Init /\ [][NextBlock]_vars

\* ---------------------------------------------------------------------
\* SpecSession: a SessionInstance, constructed by new(offset) for any u8
\* offset or by Default, under any calls of can_submit and submit
\* ---------------------------------------------------------------------
\* SessionInstance::can_submit: `%` by zero panics
CanSubmit(s) ==
    IF s.our_offset = 0
    THEN [s EXCEPT !.status = "panic"]
    ELSE [s EXCEPT !.result = IF s.turn % s.our_offset = 0 THEN "true" ELSE "false"]

\* SessionInstance::submit; turn is a u32 and MaxTurn keeps it far from
\* u32::MAX, where `turn += 1` overflows
Submit(s, new_part) ==
    [s EXCEPT !.content = Append(@, new_part), !.turn = @ + 1]

progVars == <<pc, state, sock, todo, listening, backlog, conns, cmdq, cmdOpen,
              uiq, uiqOpen, ui, dials, submits, echoes, writes, last>>

InitSession ==
    /\ pc = [p \in Peers |-> "start"]
    /\ state = [p \in Peers |-> "Waiting"]
    /\ sock = [p \in Peers |-> 0]
    /\ todo = [p \in Peers |-> <<>>]
    /\ listening = [p \in Peers |-> FALSE]
    /\ backlog = [p \in Peers |-> <<>>]
    /\ conns = <<>>
    /\ cmdq = [p \in Peers |-> <<>>]
    /\ cmdOpen = [p \in Peers |-> TRUE]
    /\ uiq = [p \in Peers |-> <<>>]
    /\ uiqOpen = [p \in Peers |-> TRUE]
    /\ ui = [p \in Peers |-> UIActorNew]
    /\ dials = [p \in Peers |-> 0]
    /\ submits = [p \in Peers |-> 0]
    /\ echoes = [p \in Peers |-> 0]
    /\ writes = [p \in Peers |-> 0]
    /\ last = [p \in Peers |-> "none"]
    /\ session \in {SessionNew(offset) : offset \in U8} \cup {SessionDefault}

SessionCanSubmit ==
    /\ session.status = "ok"
    /\ session' = CanSubmit(session)
    /\ UNCHANGED progVars

SessionSubmit ==
    /\ session.status = "ok"
    /\ session.turn < MaxTurn
    /\ \E new_part \in {Str(<<".">>), Str(<<"a", ".">>)} :
          session' = Submit(session, new_part)
    /\ UNCHANGED progVars

NextSession ==
    \/ SessionCanSubmit
    \/ SessionSubmit

SpecSession == InitSession /\ [][NextSession]_vars

\* =====================================================================
\* Properties
\* =====================================================================

\* C1: at the select the App holds no TcpStream but the one in its state,
\* and App::accept of an inbound connection while Connected keeps the state
\* and the held socket and does not keep the new stream.
C1_SingleOccupancy ==
    [][ /\ AtSelect(Local)' =>
              Held(Local)' = IF state'[Local] = "Connected" THEN {sock'[Local]} ELSE {}
        /\ AppAccept(Local) /\ state[Local] = "Connected" =>
              /\ state'[Local] = "Connected"
              /\ sock'[Local] = sock[Local]
              /\ conns'[Head(todo[Local]).c].ep[Local] \in {"shut", "closed"}
      ]_vars

\* an inbound connection has been shut down while the held socket stays open
C1_Witness ==
    \E c \in 1..Len(conns) :
        /\ conns[c].ep[Local] = "shut"
        /\ state[Local] = "Connected"
        /\ sock[Local] # c
        /\ conns[sock[Local]].ep[Local] = "open"

\* C2: two Submits are never both written to the socket without a receive
\* between them: a write_all that succeeds never follows a write_all with no
\* read of data in between.
C2_TurnExclusivity ==
    [][ (AppSelectRecv(Local) /\ writes'[Local] = writes[Local] + 1)
            => last[Local] # "sent" ]_vars

C4_TwoPeerTurn ==
    ( /\ state[Local] = "Connected"
      /\ state[Remote] = "Connected"
      /\ sock[Local] = sock[Remote]
      /\ ui[Local].app_state = "InSession"
      /\ ui[Remote].app_state = "InSession" )
        => ~(ui[Local].is_our_turn /\ ui[Remote].is_our_turn)

\* C5: an Input handled while Connected when the turn is not ours (the last
\* turn event at the App was a write of ours, and the observer's flag is
\* false) writes nothing, leaves the state Connected and logs to the observer.
C5_OutOfTurnRejection ==
    [][ ( /\ AppSelectRecv(Local)
          /\ Head(cmdq[Local]).k = "Input"
          /\ state[Local] = "Connected"
          /\ last[Local] = "sent"
          /\ ~ui[Local].is_our_turn )
            => /\ writes' = writes
               /\ conns' = conns
               /\ state'[Local] = "Connected"
               /\ todo'[Local] # <<>>
               /\ Head(todo'[Local]).op = "send"
               /\ Head(todo'[Local]).n.k = "Log"
      ]_vars

\* C6: App.state starts as Waiting; it becomes Connected only from Waiting, by
\* App::accept or by a TcpStream::connect that succeeded; it becomes Waiting
\* only from Connected, by a read of 0 bytes on the held socket; the held
\* socket changes with no other step.
C6_StateReachability ==
    /\ state[Local] = "Waiting" /\ sock[Local] = 0
    /\ [][ (state'[Local] # state[Local] \/ sock'[Local] # sock[Local]) =>
              \/ /\ state[Local] = "Waiting" /\ state'[Local] = "Connected"
                 /\ sock'[Local] # 0
                 /\ AppAccept(Local) \/ AppConnect(Local)
              \/ /\ state[Local] = "Connected" /\ state'[Local] = "Waiting"
                 /\ sock'[Local] = 0
                 /\ AppSelectRead(Local)
                 /\ AtEof(sock[Local], Local)
         ]_vars

\* App.state is Waiting again after a session, before the observer is told
C6_Witness ==
    /\ state[Local] = "Waiting"
    /\ todo[Local] # <<>>
    /\ Head(todo[Local]) = SendOp(Disconnected)

\* C7: with both actors running and every Submit the observer sent handled,
\* the observer has echoed no more sentences than the App has written to
\* the socket.
C7_NotificationFidelity ==
    ( /\ ui[Local].alive
      /\ ui[Local].pending = NoCmd
      /\ cmdq[Local] = <<>>
      /\ AtSelect(Local) )
        => echoes[Local] <= writes[Local]

\* C8: with the command channel closed, run_app at its select takes neither
\* the accept branch nor the read branch, and the handler of the closed
\* channel ends the loop with Ok.
C8_Shutdown ==
    [][ /\ (~cmdOpen[Local] /\ AtSelect(Local))
              => ~AppSelectAccept(Local) /\ ~AppSelectRead(Local)
        /\ (AppSend(Local) /\ Head(todo[Local]).n = Log("Lost connection to UI"))
              => pc'[Local] = "ok"
      ]_vars

\* C9: a read of 0 bytes while Connected drops the socket, sets Waiting and
\* leaves run_app running with Disconnected next for the observer; that send
\* keeps it running; the observer takes Disconnected as Waiting; and run_app
\* at the select in Waiting still takes commands and connections.
C9_DisconnectRecovery ==
    [][ /\ ( /\ AppSelectRead(Local)
             /\ ~conns[sock[Local]].rst[Local]
             /\ AtEof(sock[Local], Local) )
              => /\ state'[Local] = "Waiting"
                 /\ sock'[Local] = 0
                 /\ conns'[sock[Local]].ep[Local] = "closed"
                 /\ pc'[Local] = "run"
                 /\ Head(todo'[Local]) = SendOp(Disconnected)
        /\ ( /\ AppSend(Local)
             /\ Head(todo[Local]).n.k = "Disconnected"
             /\ uiqOpen[Local] )
              => /\ pc'[Local] = "run"
                 /\ uiq'[Local] = Append(uiq[Local], Disconnected)
                 /\ state'[Local] = "Waiting"
        /\ (UIRecv(Local) /\ Head(uiq[Local]).k = "Disconnected")
              => ui'[Local].app_state = "Waiting"
      ]_vars

\* after a disconnect the observer has logged, the App is Connected again
\* and the observer is back in a session
C9_Witness ==
    /\ state[Local] = "Connected"
    /\ conns[sock[Local]].ep[Local] = "open"
    /\ ui[Local].app_state = "InSession"
    /\ \E i \in 1..Len(ui[Local].log_buffer) :
          /\ ui[Local].log_buffer[i] = Str(<<"Disconnected from remote">>)
          /\ \E j \in (i + 1)..Len(ui[Local].log_buffer) :
                ui[Local].log_buffer[j] = Str(<<"Accepted remote connection">>)

\* C10: a TcpStream::connect that fails leaves run_app running in Waiting
\* with a log for the observer as its next step.
C10_DialFailure ==
    [][ ( /\ AppConnect(Local)
          /\ ~(Head(todo[Local]).c \in Peers /\ listening[Head(todo[Local]).c]) )
            => /\ pc'[Local] = "run"
               /\ state'[Local] = "Waiting"
               /\ todo'[Local] # <<>>
               /\ Head(todo'[Local]).op = "send"
               /\ Head(todo'[Local]).n.k = "Log"
      ]_vars

\* C11: a read or a write on the held socket that fails with an I/O error
\* (the connection was reset) leaves run_app running, in Waiting, with a log
\* for the observer among the steps that follow.
C11_TransportError ==
    [][ ( /\ state[Local] = "Connected"
          /\ conns[sock[Local]].rst[Local]
          /\ \/ AppSelectRead(Local)
             \/ AppSelectRecv(Local) /\ Head(cmdq[Local]).k = "Input" )
            => /\ pc'[Local] = "run"
               /\ state'[Local] = "Waiting"
               /\ \E i \in 1..Len(todo'[Local]) :
                     todo'[Local][i].op = "send" /\ todo'[Local][i].n.k = "Log"
      ]_vars

\* C12: a read that returns bytes leaves run_app running, whatever the bytes
\* are, with either the text or a log of the error to send to the observer.
C12_DecodeError ==
    [][ ( /\ AppSelectRead(Local)
          /\ ~conns[sock[Local]].rst[Local]
          /\ conns[sock[Local]].inb[Local] # <<>> )
            => /\ pc'[Local] = "run"
               /\ todo'[Local] # <<>>
               /\ Head(todo'[Local]).op = "send"
               /\ Head(todo'[Local]).n.k \in {"SentenceReceived", "Log"}
      ]_vars

\* C13: a Connect handled while Connected keeps the state and the socket,
\* attempts no connect, leaves the observer as it is and has a log to send
\* to the observer as its next step.
C13_DialWhileConnected ==
    [][ ( /\ AppSelectRecv(Local)
          /\ Head(cmdq[Local]).k = "Connect"
          /\ state[Local] = "Connected" )
            => /\ state'[Local] = "Connected"
               /\ sock'[Local] = sock[Local]
               /\ conns' = conns
               /\ ui' = ui
               /\ todo'[Local] # <<>>
               /\ \A i \in 1..Len(todo'[Local]) :
                     todo'[Local][i].op = "send" /\ todo'[Local][i].n.k = "Log"
      ]_vars

\* C14: an Input handled while Waiting writes nothing, keeps Waiting and
\* leaves run_app running with exactly one log to send, which reaches the
\* observer's channel.
C14_SubmitWhileWaiting ==
    [][ /\ ( /\ AppSelectRecv(Local)
             /\ Head(cmdq[Local]).k = "Input"
             /\ state[Local] = "Waiting" )
              => /\ writes' = writes
                 /\ conns' = conns
                 /\ state'[Local] = "Waiting"
                 /\ sock'[Local] = 0
                 /\ pc'[Local] = "run"
                 /\ todo'[Local] = <<SendOp(Log("ERROR: Unexpected input"))>>
        /\ ( /\ AppSend(Local)
             /\ Head(todo[Local]).n = Log("ERROR: Unexpected input")
             /\ uiqOpen[Local] )
              => /\ uiq'[Local] = Append(uiq[Local], Log("ERROR: Unexpected input"))
                 /\ todo'[Local] = <<>>
                 /\ state'[Local] = "Waiting"
      ]_vars

\* the observer has logged the rejection of an Input and the App is Waiting
C14_Witness ==
    /\ state[Local] = "Waiting"
    /\ AtSelect(Local)
    /\ \E i \in 1..Len(ui[Local].log_buffer) :
          ui[Local].log_buffer[i] = Str(<<"ERROR: Unexpected input">>)

\* C15: the notification channel never holds more than ChanCap messages; a
\* send appends its message at the end, only when there is room; the observer
\* takes the message at the front and handles exactly that one; nothing else
\* changes the channel but the drop of the observer; and while the channel is
\* full the App stays at its pending send with the message kept.
C15_NotificationDelivery ==
    /\ [](Len(uiq[Local]) <= ChanCap)
    /\ [][ /\ (AppSend(Local) /\ uiqOpen[Local])
                 => /\ Len(uiq[Local]) < ChanCap
                    /\ uiq'[Local] = Append(uiq[Local], Head(todo[Local]).n)
           /\ UIRecv(Local)
                 => /\ uiq'[Local] = Tail(uiq[Local])
                    /\ ui'[Local] = HandleMessage(ui[Local], Head(uiq[Local]))
           /\ uiq'[Local] # uiq[Local]
                 => AppSend(Local) \/ UIRecv(Local) \/ UIQuit(Local)
           /\ ( /\ Len(uiq[Local]) = ChanCap
                /\ uiqOpen[Local]
                /\ pc[Local] = "run"
                /\ todo[Local] # <<>>
                /\ Head(todo[Local]).op = "send" )
                 => \/ todo'[Local] = todo[Local] /\ pc'[Local] = pc[Local]
                                                 /\ Len(uiq'[Local]) = ChanCap
                    \/ UIRecv(Local) \/ UIQuit(Local)
         ]_vars

\* the channel is full and the App is waiting to send the next notification
C15_Witness ==
    /\ Len(uiq[Local]) = ChanCap
    /\ uiqOpen[Local]
    /\ pc[Local] = "run"
    /\ todo[Local] # <<>>
    /\ Head(todo[Local]).op = "send"

\* C16: a read of N > 0 bytes leaves the state Connected and has as its next
\* step the send of SentenceReceived with exactly the text of those N bytes;
\* the observer that handles it in a session has the turn.
C16_FragmentFidelity ==
    [][ /\ ( /\ AppSelectRead(Local)
             /\ ~conns[sock[Local]].rst[Local]
             /\ conns[sock[Local]].inb[Local] # <<>>
             /\ pc'[Local] = "run" )
              => /\ state'[Local] = "Connected"
                 /\ \E n \in 1..Len(conns[sock[Local]].inb[Local]) :
                      /\ conns'[sock[Local]].inb[Local] =
                             Suffix(conns[sock[Local]].inb[Local], n)
                      /\ todo'[Local] = <<SendOp(SentenceReceived(
                             Str(Utf8Chars(Prefix(conns[sock[Local]].inb[Local], n)))))>>
        /\ ( /\ UIRecv(Local)
             /\ Head(uiq[Local]).k = "SentenceReceived"
             /\ ui[Local].app_state = "InSession" )
              => ui'[Local].is_our_turn
      ]_vars

\* C17: the transcript is empty outside a session; handling Connected starts
\* a session with an empty transcript and handling Disconnected ends it with
\* the transcript gone; every other change of the transcript happens within a
\* session and appends one fragment at its end.
C17_TranscriptLifetime ==
    /\ [](ui[Local].app_state = "Waiting" => ui[Local].content_log = <<>>)
    /\ [][ /\ (UIRecv(Local) /\ Head(uiq[Local]).k = "Connected")
                 => /\ ui'[Local].app_state = "InSession"
                    /\ ui'[Local].content_log = <<>>
           /\ (UIRecv(Local) /\ Head(uiq[Local]).k = "Disconnected")
                 => /\ ui'[Local].app_state = "Waiting"
                    /\ ui'[Local].content_log = <<>>
           /\ ( /\ ui'[Local].content_log # ui[Local].content_log
                /\ ~(UIRecv(Local) /\ Head(uiq[Local]).k \in {"Connected", "Disconnected"}) )
                 => /\ ui[Local].app_state = "InSession"
                    /\ ui'[Local].app_state = "InSession"
                    /\ Len(ui'[Local].content_log) = Len(ui[Local].content_log) + 1
                    /\ Prefix(ui'[Local].content_log, Len(ui[Local].content_log))
                          = ui[Local].content_log
         ]_vars

\* a second session starts with an empty transcript after the observer echoed
\* a sentence into the transcript of the first
C17_Witness ==
    /\ ui[Local].app_state = "InSession"
    /\ ui[Local].content_log = <<>>
    /\ echoes[Local] > 0
    /\ \E i \in 1..Len(ui[Local].log_buffer) :
          /\ ui[Local].log_buffer[i] = Str(<<"Accepted remote connection">>)
          /\ \E j \in (i + 1)..Len(ui[Local].log_buffer) :
                ui[Local].log_buffer[j] = Str(<<"Accepted remote connection">>)

\* C18: when TcpListener::bind fails the process ends: the observer does not
\* run on.
C18_BindFailureFatal ==
    [][ (AppBind(Local) /\ pc'[Local] # "run") => ~ui'[Local].alive ]_vars

\* C19: never is the App waiting to send into a full notification channel
\* while the observer is waiting to send into a full command channel.
C19_NoMutualBlocking ==
    ~( /\ pc[Local] = "run"
       /\ todo[Local] # <<>>
       /\ Head(todo[Local]).op = "send"
       /\ uiqOpen[Local]
       /\ Len(uiq[Local]) = ChanCap
       /\ ui[Local].alive
       /\ ui[Local].pending # NoCmd
       /\ Len(cmdq[Local]) = ChanCap )

\* C20: two peers Connected on one connection, both observers in the session,
\* every channel empty, both Apps at their select and no byte unread on the
\* socket: the two transcripts hold the same texts in the same order (the
\* NUL padding of a received text left aside).
C20_TranscriptAgreement ==
    LET Text(log) == [i \in 1..Len(log) |-> log[i].s] IN
    ( /\ state[Local] = "Connected"
      /\ state[Remote] = "Connected"
      /\ sock[Local] = sock[Remote]
      /\ \A p \in Peers :
            /\ ui[p].app_state = "InSession"
            /\ ui[p].pending = NoCmd
            /\ cmdq[p] = <<>>
            /\ uiq[p] = <<>>
            /\ AtSelect(p)
            /\ conns[sock[p]].inb[p] = <<>> )
        => Text(ui[Local].content_log) = Text(ui[Remote].content_log)

\* C21: with run_app running and idle at its select, the observer running
\* and the notification channel empty, the observer is InSession exactly
\* when App.state is Connected.
C21_ViewStateAgreement ==
    ( /\ AtSelect(Local)
      /\ ui[Local].alive
      /\ uiq[Local] = <<>> )
        => (ui[Local].app_state = "InSession") = (state[Local] = "Connected")

\* the App is idle in a session and the observer has caught up with it
C21_Witness ==
    /\ AtSelect(Local)
    /\ uiq[Local] = <<>>
    /\ ui[Local].alive
    /\ state[Local] = "Connected"
    /\ ui[Local].app_state = "InSession"
    /\ conns[sock[Local]].dialer = Remote

\* C22: two peers Connected on one connection, both Apps idle, both
\* notification channels empty and both observers in the session with no
\* sentence in their transcripts yet: exactly one observer has the turn.
C22_ComplementaryTurns ==
    ( /\ state[Local] = "Connected"
      /\ state[Remote] = "Connected"
      /\ sock[Local] = sock[Remote]
      /\ \A p \in Peers :
            /\ AtSelect(p)
            /\ uiq[p] = <<>>
            /\ ui[p].app_state = "InSession"
            /\ ui[p].content_log = <<>> )
        => ui[Local].is_our_turn # ui[Remote].is_our_turn

\* a session of two peers has started and neither has submitted: the turn is
\* with one of them
C22_Witness ==
    /\ state[Local] = "Connected"
    /\ state[Remote] = "Connected"
    /\ sock[Local] = sock[Remote]
    /\ \A p \in Peers :
          /\ AtSelect(p)
          /\ uiq[p] = <<>>
          /\ cmdq[p] = <<>>
          /\ ui[p].app_state = "InSession"
          /\ ui[p].content_log = <<>>
          /\ ui[p].is_our_turn = (conns[sock[p]].dialer = p)

\* C23: the command channel grows only by the observer's send; an Input is
\* sent only by an observer InSession with is_our_turn true and is the text
\* of its input buffer, and once it is enqueued is_our_turn is false; a
\* Connect is sent only by an observer in Waiting.
C23_CommandGuard ==
    [][ /\ Len(cmdq'[Local]) > Len(cmdq[Local])
              => /\ UISend(Local)
                 /\ cmdq'[Local] = Append(cmdq[Local], ui[Local].pending)
        /\ (UISend(Local) /\ ui[Local].pending.k = "Input")
              => /\ ui[Local].app_state = "InSession"
                 /\ ui[Local].is_our_turn
                 /\ ui[Local].pending.s = Str(ui[Local].input_buffer)
                 /\ Len(cmdq'[Local]) > Len(cmdq[Local]) => ~ui'[Local].is_our_turn
        /\ (UISend(Local) /\ ui[Local].pending.k = "Connect")
              => ui[Local].app_state = "Waiting"
      ]_vars

\* a sentence is in the command channel and the observer has given up the turn
C23_Witness ==
    /\ cmdq[Local] # <<>>
    /\ cmdq[Local][Len(cmdq[Local])].k = "Input"
    /\ ui[Local].app_state = "InSession"
    /\ ~ui[Local].is_our_turn
    /\ ui[Local].pending = NoCmd

\* C24: no call on a SessionInstance fails, whatever its our_offset, and the
\* length of content equals turn.
C24_CanSubmitTotal ==
    /\ session.status = "ok"
    /\ Len(session.content) = session.turn

====
